---- MODULE Spec2Model ----
(***************************************************************************)
(* Model of scraper/scrape_te_total_vehicle_sales.py: the per-country      *)
(* retry controller (scrape_country), the frame normalisation, the         *)
(* append/upsert merge into the persisted master (merge_with_existing,     *)
(* write_outputs) and the sequential run over the country list (main).     *)
(* slugify_country and the script of extract_highcharts_series are pure    *)
(* functions of their inputs and have a specification each (SpecSlug,      *)
(* SpecScan); SpecNorm is the frame normalisation on a script result.      *)
(*                                                                         *)
(* Time is modelled in ticks: a calendar month has TicksPerMonth ticks,    *)
(* tick 0 of a month being its first instant.  A value is a decimal with   *)
(* one fractional digit, held as an integer number of tenths (105 = 10.5). *)
(***************************************************************************)
EXTENDS Integers, Sequences, FiniteSets, TLC

\* ---------------------------------------------------------------- bounds
NumCountries == 2
NumMonths == 2
TicksPerMonth == 2
RunPts == 1
MaxPts == 3
MaxNameLen == 4
MaxCharts == 2
MaxSeries == 3
SparseLen == 6
DenseLen == 12

\* ------------------------------------------------------ program constants
TARGET_COUNTRIES ==
    << "Australia", "Brazil", "Chile", "China", "Colombia", "India",
       "Malaysia", "Mexico", "Philippines", "Russia", "South Africa",
       "Spain", "Thailand", "Turkey", "United States" >>

\* retry=2 of scrape_country, and the 2 of time.sleep(2 + attempt)
retry == 2
base_delay == 2

\* the 10 of "results.length > 10" in the extraction script
cap == 10

\* a missing number (the NaN / NaT of a row that dropna removes); every tick and
\* every value is >= 0
NaN == 0 - 1

\* an Optional[DataFrame]: None, or a frame with its rows
NoneDf == [isNone |-> TRUE, rows |-> << >>]
Df(rows) == [isNone |-> FALSE, rows |-> rows]

\* a path on disk: no file, or a file with its lines
NoFile == [exists |-> FALSE, rows |-> << >>]
File(rows) == [exists |-> TRUE, rows |-> rows]

\* main's items: the model runs over NumCountries consecutive entries of the
\* target list, starting at Chile.
items == SubSeq(TARGET_COUNTRIES, 3, NumCountries + 2)

\* TARGET_COUNTRIES is in ascending string order, so the string comparison
\* sort_values makes on the country column is the comparison of list positions.
CountryRank(c) == CHOOSE k \in 1 .. Len(TARGET_COUNTRIES) : TARGET_COUNTRIES[k] = c

Ticks == 0 .. (NumMonths * TicksPerMonth - 1)
Values == {105, 110}

\* ------------------------------------------------------- sequence helpers
RECURSIVE PickFrom(_, _, _)
PickFrom(s, keep, k) ==
    IF k > Len(s) THEN << >>
    ELSE IF k \in keep THEN << s[k] >> \o PickFrom(s, keep, k + 1)
    ELSE PickFrom(s, keep, k + 1)

\* the rows of s at the positions in keep, in their order in s
Pick(s, keep) == PickFrom(s, keep, 1)

SeqsUpTo(S, n) == UNION { [1 .. k -> S] : k \in 0 .. n }

Injections(n) == { f \in [1 .. n -> 1 .. n] : \A a, b \in 1 .. n : a # b => f[a] # f[b] }

\* ------------------------------------------- extract_highcharts_series (py)
\* pd.DataFrame(pts, columns=["ts","value"]); df["date"] = to_datetime(ts)
ToFrame(pts) == [k \in 1 .. Len(pts) |-> [value |-> pts[k][2], date |-> pts[k][1]]]

\* .dropna(): a row with a missing date or a missing value goes
dropna(df) == Pick(df, { k \in 1 .. Len(df) : df[k].date # NaN /\ df[k].value # NaN })

\* .drop_duplicates(): of rows equal in every column the first stays
drop_duplicates(df) ==
    Pick(df, { k \in 1 .. Len(df) : ~ \E j \in 1 .. (k - 1) : df[j] = df[k] })

\* the sort left out: the rows stay as the script gave them
sort_values_date_unsorted(df) == { df }

\* .sort_values("date"): the default sort of one column is not stable, so rows
\* of equal date come out in any order.  The set of the possible results.
sort_values_date(df) ==
    { [k \in 1 .. Len(df) |-> df[f[k]]] :
        f \in { g \in Injections(Len(df)) :
                  \A a, b \in 1 .. Len(df) : a < b => df[g[a]].date <= df[g[b]].date } }

\* the frames extract_highcharts_series can return for the script result pts
\* (None when the script returned nothing)
extract_highcharts_series(pts) ==
    IF pts = << >> THEN { NoneDf }
    ELSE { Df(r) : r \in sort_values_date(drop_duplicates(dropna(ToFrame(pts)))) }

\* ----------------------------------------------- scrape_country, the tail
\* to_timestamp(how="end") in the place of the default: the last instant
MonthStart_end(t) == (t \div TicksPerMonth) * TicksPerMonth + (TicksPerMonth - 1)

\* .dt.to_period("M").dt.to_timestamp(): the first instant of the month
MonthStart(t) == (t \div TicksPerMonth) * TicksPerMonth

\* the default keep of drop_duplicates: the first row of each key stays
KeepFirst(k, df) == ~ \E j \in 1 .. (k - 1) : df[j].country = df[k].country /\ df[j].date = df[k].date

\* df.drop_duplicates(subset=["country", "date"])
drop_duplicates_key(df) == Pick(df, { k \in 1 .. Len(df) : KeepFirst(k, df) })

\* lines 246-255 of scrape_country on the frame f the extractor returned
NormalizeFrame(f, country) ==
    IF f.isNone \/ f.rows = << >> THEN NoneDf
    ELSE Df(drop_duplicates_key(
              [k \in 1 .. Len(f.rows) |->
                 [country |-> country,
                  date |-> MonthStart(f.rows[k].date),
                  value |-> f.rows[k].value]]))

\* ------------------------------------------------------------ the CSV file
\* to_csv writes a month-start date as year-month-day text and a value as a
\* decimal; read_csv(parse_dates=["date"]) reads them back.
DaysPerTick == 28 \div TicksPerMonth

FormatDate(t) ==
    << 2020 + ((t \div TicksPerMonth) \div 12),
       1 + ((t \div TicksPerMonth) % 12),
       1 + (t % TicksPerMonth) * DaysPerTick >>

\* the text read day-first: the month and the day fields change places
ParseDate_dayfirst(d) ==
    ((d[1] - 2020) * 12 + (d[3] - 1)) * TicksPerMonth + ((d[2] - 1) \div DaysPerTick)

ParseDate(d) ==
    ((d[1] - 2020) * 12 + (d[2] - 1)) * TicksPerMonth + ((d[3] - 1) \div DaysPerTick)

FormatValue(v) == << v \div 10, v % 10 >>

ParseValue(x) == x[1] * 10 + x[2]

\* master.to_csv(index=False): one line per row
to_csv(df) ==
    [k \in 1 .. Len(df) |->
       << df[k].country, FormatDate(df[k].date), FormatValue(df[k].value) >>]

\* pd.read_csv(..., parse_dates=["date"])[["country", "date", "value"]]
read_csv(lines) ==
    [k \in 1 .. Len(lines) |->
       [country |-> lines[k][1], date |-> ParseDate(lines[k][2]), value |-> ParseValue(lines[k][3])]]

\* ------------------------------------------------------ merge_with_existing
SameKey(a, b) == a.country = b.country /\ a.date = b.date

\* the order of sort_values(["country", "date"])
KeyLess(a, b) ==
    \/ CountryRank(a.country) < CountryRank(b.country)
    \/ a.country = b.country /\ a.date < b.date

\* r goes after every row of the sorted s that is not greater than it
InsertRow(s, r) ==
    LET n == Cardinality({ k \in 1 .. Len(s) : ~ KeyLess(r, s[k]) })
    IN  SubSeq(s, 1, n) \o << r >> \o SubSeq(s, n + 1, Len(s))

RECURSIVE SortPrefix(_, _)
SortPrefix(df, n) == IF n = 0 THEN << >> ELSE InsertRow(SortPrefix(df, n - 1), df[n])

\* df.sort_values(["country", "date"]): a sort on several columns is a stable
\* lexsort, rows of equal key keep their order
sort_values_key(df) == SortPrefix(df, Len(df))

\* keep="first" in the place of keep="last"
KeepLast_first(k, df) == ~ \E j \in 1 .. (k - 1) : SameKey(df[j], df[k])

\* keep="last": a row stays when no later row has its key
KeepLast(k, df) == ~ \E j \in (k + 1) .. Len(df) : SameKey(df[j], df[k])

\* the drop_duplicates left out
drop_duplicates_last_none(df) == df

\* .drop_duplicates(subset=["country", "date"], keep="last")
drop_duplicates_last(df) == Pick(df, { k \in 1 .. Len(df) : KeepLast(k, df) })

\* the existing master is never loaded
merge_with_existing_overwrite(file, new_panel_) == sort_values_key(new_panel_)

merge_with_existing(file, new_panel_) ==
    IF file.exists
    THEN LET old == read_csv(file.rows)
             combined == old \o new_panel_
         IN  sort_values_key(drop_duplicates_last(sort_values_key(combined)))
    ELSE sort_values_key(new_panel_)

RECURSIVE ConcatFrames(_)
\* pd.concat(all_rows, ignore_index=True)
ConcatFrames(frames) ==
    IF frames = << >> THEN << >> ELSE Head(frames) \o ConcatFrames(Tail(frames))

\* master[master["date"] >= cutoff_10y]
Latest10y(df, cutoff) == Pick(df, { k \in 1 .. Len(df) : df[k].date >= cutoff })

\* write_manifest: the counts it records
Manifest(df, latest) ==
    [row_count_master |-> Len(df),
     row_count_latest10y |-> Len(latest),
     country_count |-> Cardinality({ df[k].country : k \in 1 .. Len(df) })]

NoManifest == [row_count_master |-> NaN, row_count_latest10y |-> NaN, country_count |-> NaN]

\* --------------------------------------------------------- slugify_country
\* A string is the sequence of its characters.  Spelling[k] is the text of
\* TARGET_COUNTRIES[k].
Spelling ==
    << << "A", "u", "s", "t", "r", "a", "l", "i", "a" >>,
       << "B", "r", "a", "z", "i", "l" >>,
       << "C", "h", "i", "l", "e" >>,
       << "C", "h", "i", "n", "a" >>,
       << "C", "o", "l", "o", "m", "b", "i", "a" >>,
       << "I", "n", "d", "i", "a" >>,
       << "M", "a", "l", "a", "y", "s", "i", "a" >>,
       << "M", "e", "x", "i", "c", "o" >>,
       << "P", "h", "i", "l", "i", "p", "p", "i", "n", "e", "s" >>,
       << "R", "u", "s", "s", "i", "a" >>,
       << "S", "o", "u", "t", "h", " ", "A", "f", "r", "i", "c", "a" >>,
       << "S", "p", "a", "i", "n" >>,
       << "T", "h", "a", "i", "l", "a", "n", "d" >>,
       << "T", "u", "r", "k", "e", "y" >>,
       << "U", "n", "i", "t", "e", "d", " ", "S", "t", "a", "t", "e", "s" >> >>

\* SLUG_OVERRIDES, keyed by the text of the name
SLUG_OVERRIDES ==
    (Spelling[15] :> << "u", "n", "i", "t", "e", "d", "-", "s", "t", "a", "t", "e", "s" >>)
    @@ (Spelling[11] :> << "s", "o", "u", "t", "h", "-", "a", "f", "r", "i", "c", "a" >>)

Whitespace == { " ", "\t" }

UpperCase == << "A", "B", "C", "I", "M", "P", "R", "S", "T", "U" >>
LowerCase == << "a", "b", "c", "i", "m", "p", "r", "s", "t", "u" >>

RECURSIVE lstrip(_)
lstrip(t) == IF t # << >> /\ Head(t) \in Whitespace THEN lstrip(Tail(t)) ELSE t

RECURSIVE rstrip(_)
rstrip(t) ==
    IF t # << >> /\ t[Len(t)] \in Whitespace THEN rstrip(SubSeq(t, 1, Len(t) - 1)) ELSE t

\* str.strip(): the whitespace at both ends goes
strip(t) == rstrip(lstrip(t))

\* str.lower()
lower(t) ==
    [k \in 1 .. Len(t) |->
       IF \E u \in 1 .. Len(UpperCase) : UpperCase[u] = t[k]
       THEN LowerCase[CHOOSE u \in 1 .. Len(UpperCase) : UpperCase[u] = t[k]]
       ELSE t[k]]

RECURSIVE replace_runs(_)
\* every run of spaces made one hyphen, as re.sub(" +", "-", t) would
replace_runs(t) ==
    IF t = << >> THEN << >>
    ELSE IF Head(t) # " " THEN << Head(t) >> \o replace_runs(Tail(t))
    ELSE IF Len(t) > 1 /\ t[2] = " " THEN replace_runs(Tail(t))
    ELSE << "-" >> \o replace_runs(Tail(t))

\* str.replace(" ", "-"): every space becomes a hyphen
replace(t) == [k \in 1 .. Len(t) |-> IF t[k] = " " THEN "-" ELSE t[k]]

slugify_country(country) ==
    IF country \in DOMAIN SLUG_OVERRIDES
    THEN SLUG_OVERRIDES[country]
    ELSE replace(lower(strip(country)))

NoSlug == [done |-> FALSE, text |-> << >>]

\* ------------------------------------- extract_highcharts_series (the script)
\* a property whose typeof is not 'number' (null, undefined, a string); NaN
\* is a number to typeof
NotNumber == 0 - 2

\* typeof v === 'number'
IsNumber(v) == v # NotNumber

\* "typeof Highcharts === 'undefined' || !Highcharts.charts", or the charts
\* array.  A chart that is not live is a destroyed slot of the array or has no
\* series property.
NoRuntime == [defined |-> FALSE, charts |-> << >>]
Runtime(charts) == [defined |-> TRUE, charts |-> charts]

\* the series flagged internal or identified as the navigator are left out
Qualifies_internal_only(s) == ~ s.isInternal

\* line 199: s.options.isInternal || s.options.id === 'navigator'
Qualifies(s) == ~ (s.isInternal \/ s.id = "navigator")

\* line 202: the point is pushed when x and y are numbers
Pushes(p) == IsNumber(p.x) /\ IsNumber(p.y)

\* lines 201-205 on series s of chart c: the points pushed, as references
\* << chart, series, point >> in the order of the points
Pushed(hc, c, s) ==
    LET pts_ == hc.charts[c].series[s].points
    IN  Pick([q \in 1 .. Len(pts_) |-> << c, s, q >>],
             { q \in 1 .. Len(pts_) : Pushes(pts_[q]) })

\* the test made at ten collected instead of past ten
CapReached_at_ten(n) == n >= cap

\* line 206: results.length > 10
CapReached(n) == n > cap

RECURSIVE ScanFrom(_, _, _, _)
\* lines 194-209 from series s of chart c on, acc being results so far
ScanFrom(hc, c, s, acc) ==
    IF c > Len(hc.charts) THEN acc
    ELSE IF ~ hc.charts[c].live \/ s > Len(hc.charts[c].series) THEN ScanFrom(hc, c + 1, 1, acc)
    ELSE IF hc.charts[c].series[s].points = << >> \/ ~ Qualifies(hc.charts[c].series[s])
    THEN ScanFrom(hc, c, s + 1, acc)
    ELSE LET pushed == acc \o Pushed(hc, c, s)
         IN  IF CapReached(Len(pushed)) THEN pushed ELSE ScanFrom(hc, c, s + 1, pushed)

\* the script of lines 190-210: the references of the points it returns
Scan(hc) == IF ~ hc.defined THEN << >> ELSE ScanFrom(hc, 1, 1, << >>)

\* results.push([p.x, p.y]) for the references in refs
PairsOf(hc, refs) ==
    [k \in 1 .. Len(refs) |->
       << hc.charts[refs[k][1]].series[refs[k][2]].points[refs[k][3]].x,
          hc.charts[refs[k][1]].series[refs[k][2]].points[refs[k][3]].y >>]

NoResults == [done |-> FALSE, pts |-> << >>, from |-> << >>]

\* ----------------------------------------------------------------- state
VARIABLES
    master_csv,     \* the file at MASTER_CSV_GZ
    latest10y_csv,  \* the file at LATEST10Y_CSV_GZ
    manifest,       \* what manifest.json records, NoManifest before the first write
    cutoff_10y,     \* the module-level cutoff of the process now running
    pc,             \* where the process is
    i,              \* main: position in items (1-based, as enumerate(items, 1))
    all_rows,       \* main: the frames collected so far
    processed,      \* the countries announced by main's "[i/n] country" line, in order
    df,             \* the value scrape_country returned
    outcome,        \* how scrape_country ended: "ok", "nodata", "fail"; "none" while it runs
    attempt,        \* scrape_country: the loop variable
    gets,           \* scrape_country: driver.get calls made in this call
    sleeps,         \* scrape_country: the delays of the except handler, in order
    page,           \* what driver.get loaded: "chart", "challenge"; "none" before
    range,          \* what the range selection of this attempt did
    extracted,      \* scrape_country: times the extraction script returned in this call
    pts,            \* the raw points the extraction script returned in this call
    new_panel,      \* main: the panel of this run
    merged,         \* write_outputs: the frame merge_with_existing returned
    start,          \* the files as they were when the run started
    seen,           \* per key, the value of the most recent run's panel that held it
    name,           \* slugify_country: its argument, a string as its characters
    slug,           \* slugify_country: what it returned
    highcharts,     \* the page's Highcharts global as the extraction script finds it
    results         \* the extraction script: what it returned and from which points

files == << master_csv, latest10y_csv, manifest >>
mainVars == << i, all_rows, processed, new_panel, merged >>
callVars == << df, outcome, attempt, gets, sleeps, page, range, extracted, pts >>
vars == << master_csv, latest10y_csv, manifest, cutoff_10y, pc, i, all_rows, processed,
           df, outcome, attempt, gets, sleeps, page, range, extracted, pts, new_panel,
           merged, start, seen, name, slug, highcharts, results >>
funVars == << name, slug, highcharts, results >>
pipeVars == << master_csv, latest10y_csv, manifest, cutoff_10y, pc, i, all_rows, processed,
               df, outcome, attempt, gets, sleeps, page, range, extracted, pts, new_panel,
               merged, start, seen >>

Months == { m * TicksPerMonth : m \in 0 .. (NumMonths - 1) }
Countries == { items[k] : k \in 1 .. NumCountries }
Keys == Countries \X Months

\* what the page's script can hand back: [x, y] pairs, either of which may be
\* a number that arrives as missing
RawPoints(vals) == (Ticks \cup {NaN}) \X (vals \cup {NaN})

\* what the range selection of an attempt did: whether click_te_10y_button
\* clicked, whether the script ran and what it returned, and the labels the
\* range buttons of the page's charts carried
NoRange == [clicked |-> FALSE, scripted |-> FALSE, chosen |-> "null", have |-> {}]
Labels == {"MAX", "10Y", "ALL"}
LabelSets == SUBSET Labels
Pages == {"chart", "challenge"}

\* the three labels tried in another order, 10Y before MAX
set_range_to_max_or_10y_10y_first(have) ==
    IF "10Y" \in have THEN "10Y"
    ELSE IF "MAX" \in have THEN "MAX"
    ELSE IF "ALL" \in have THEN "ALL"
    ELSE "null"

\* the script of set_range_to_max_or_10y on charts whose range buttons carry
\* the labels in have
set_range_to_max_or_10y(have) ==
    IF "MAX" \in have THEN "MAX"
    ELSE IF "10Y" \in have THEN "10Y"
    ELSE IF "ALL" \in have THEN "ALL"
    ELSE "null"

\* the locals of a scrape_country call at its entry
CallEntry ==
    /\ df = NoneDf
    /\ outcome = "none"
    /\ attempt = 0
    /\ gets = 0
    /\ sleeps = << >>
    /\ page = "none"
    /\ range = NoRange
    /\ extracted = 0
    /\ pts = << >>

\* the process before a run, with no file on disk
PipelineInit ==
    /\ master_csv = NoFile
    /\ latest10y_csv = NoFile
    /\ manifest = NoManifest
    /\ cutoff_10y = 0
    /\ pc = "idle"
    /\ i = 0
    /\ all_rows = << >>
    /\ processed = << >>
    /\ new_panel = << >>
    /\ merged = << >>
    /\ start = [master |-> NoFile, latest10y |-> NoFile, manifest |-> NoManifest]
    /\ seen = [k \in Keys |-> NaN]
    /\ CallEntry

\* no call of slugify_country or of the extraction script is under way
FunIdle ==
    /\ name = << >>
    /\ slug = NoSlug
    /\ highcharts = NoRuntime
    /\ results = NoResults

Init == PipelineInit /\ FunIdle

Idle == {"idle", "done", "fatal"}

\* import of the module and main up to its loop (lines 74-78, 339-345)
StartRun ==
    /\ pc \in Idle
    /\ cutoff_10y' \in Months
    /\ pc' = "loop"
    /\ i' = 1
    /\ all_rows' = << >>
    /\ processed' = << >>
    /\ new_panel' = << >>
    /\ merged' = << >>
    /\ start' = [master |-> master_csv, latest10y |-> latest10y_csv, manifest |-> manifest]
    /\ UNCHANGED << files, callVars, seen >>
    /\ UNCHANGED funVars

\* main lines 347-350 and scrape_country lines 222-225: the call for items[i]
CallScrape ==
    /\ pc = "loop"
    /\ processed' = Append(processed, items[i])
    /\ pc' = "navigating"
    /\ df' = NoneDf
    /\ outcome' = "none"
    /\ attempt' = 0
    /\ gets' = 0
    /\ sleeps' = << >>
    /\ page' = "none"
    /\ range' = NoRange
    /\ extracted' = 0
    /\ pts' = << >>
    /\ UNCHANGED << files, cutoff_10y, i, all_rows, new_panel, merged, start, seen >>
    /\ UNCHANGED funVars

\* lines 227-229: driver.get, the body wait and the grace delay succeed
Navigate ==
    /\ pc = "navigating"
    /\ page' \in Pages
    /\ gets' = gets + 1
    /\ range' = NoRange
    /\ pc' = "awaiting_ready"
    /\ UNCHANGED << files, cutoff_10y, mainVars, df, outcome, attempt, sleeps, extracted, pts,
                    start, seen >>
    /\ UNCHANGED funVars

\* the readiness wait returning whatever the page is
Ready_any_page ==
    /\ pc = "awaiting_ready"
    /\ pc' = "selecting_range"
    /\ UNCHANGED << files, cutoff_10y, mainVars, callVars, start, seen >>
    /\ UNCHANGED funVars

\* lines 231-232, wait_for_highcharts returns: the page has the charting
\* runtime with a chart
Ready ==
    /\ pc = "awaiting_ready"
    /\ page = "chart"
    /\ pc' = "selecting_range"
    /\ UNCHANGED << files, cutoff_10y, mainVars, callVars, start, seen >>
    /\ UNCHANGED funVars

\* what lines 237-243 leave when the control was clickable or not and the
\* range buttons carry the labels in have
Selected(clickable, have) ==
    IF clickable
    THEN [clicked |-> TRUE, scripted |-> FALSE, chosen |-> "null", have |-> have]
    ELSE [clicked |-> FALSE, scripted |-> TRUE,
          chosen |-> set_range_to_max_or_10y(have), have |-> have]

\* a range selection that matched nothing taken for a failure of the attempt
SelectRange_strict ==
    /\ pc = "selecting_range"
    /\ \E clickable \in BOOLEAN, have \in LabelSets :
         /\ range' = Selected(clickable, have)
         /\ IF range'.clicked \/ range'.chosen # "null"
            THEN /\ pc' = "extracting"
                 /\ UNCHANGED << df, outcome, attempt, sleeps >>
            ELSE /\ sleeps' = Append(sleeps, base_delay + attempt)
                 /\ attempt' = IF attempt < retry THEN attempt + 1 ELSE attempt
                 /\ pc' = IF attempt < retry THEN "navigating" ELSE "returned"
                 /\ outcome' = IF attempt < retry THEN outcome ELSE "fail"
                 /\ UNCHANGED df
    /\ UNCHANGED << files, cutoff_10y, mainVars, gets, page, extracted, pts, start, seen >>
    /\ UNCHANGED funVars

\* lines 237-243: click_te_10y_button, and set_range_to_max_or_10y when the
\* control was not clickable in time
SelectRange ==
    /\ pc = "selecting_range"
    /\ \E clickable \in BOOLEAN, have \in LabelSets : range' = Selected(clickable, have)
    /\ pc' = "extracting"
    /\ UNCHANGED << files, cutoff_10y, mainVars, df, outcome, attempt, gets, sleeps, page,
                    extracted, pts, start, seen >>
    /\ UNCHANGED funVars

\* an empty extraction taken for a failed attempt: backoff and another attempt
\* while the budget lasts
Return_retry_empty(p, f) ==
    /\ pts' = p
    /\ extracted' = extracted + 1
    /\ IF NormalizeFrame(f, items[i]).isNone /\ attempt < retry
       THEN /\ sleeps' = Append(sleeps, base_delay + attempt)
            /\ attempt' = attempt + 1
            /\ pc' = "navigating"
            /\ UNCHANGED << df, outcome, gets >>
       ELSE /\ df' = NormalizeFrame(f, items[i])
            /\ outcome' = IF df'.isNone THEN "nodata" ELSE "ok"
            /\ pc' = "returned"
            /\ UNCHANGED << attempt, gets, sleeps >>

\* lines 245-255 for the script result p and the frame f the extractor made
\* of it: the return of scrape_country
Return(p, f) ==
    /\ pts' = p
    /\ extracted' = extracted + 1
    /\ df' = NormalizeFrame(f, items[i])
    /\ outcome' = IF df'.isNone THEN "nodata" ELSE "ok"
    /\ pc' = "returned"
    /\ UNCHANGED << attempt, gets, sleeps >>

\* lines 245-255: the extraction returns one of the results in P, and with it
\* scrape_country
ExtractFrom(P) ==
    /\ pc = "extracting"
    /\ \E p \in P : \E f \in extract_highcharts_series(p) : Return(p, f)
    /\ UNCHANGED << files, cutoff_10y, mainVars, page, range, start, seen >>
    /\ UNCHANGED funVars

\* the script results a run draws from: up to RunPts points
RunResults == SeqsUpTo(RawPoints(Values), RunPts)

Extract == ExtractFrom(RunResults)

Stages == {"navigating", "awaiting_ready", "selecting_range", "extracting"}

\* one attempt too many: range(retry + 2)
MoreAttempts_extra(a) == a <= retry

\* the loop of line 225 goes on while the attempt index is within range(retry + 1)
MoreAttempts(a) == a < retry

\* the retry goes on from the stage that raised
RetryFrom_same(stage) == stage

\* line 225: the next pass of the loop starts at the top of its body, the
\* driver.get of line 227, whichever stage raised
RetryFrom(stage) == "navigating"

\* lines 257-262: a stage raised.  The handler sleeps, then the loop goes on
\* or, after the last attempt, scrape_country prints and returns None.
AttemptFails ==
    /\ pc \in Stages
    /\ gets' = IF pc = "navigating" THEN gets + 1 ELSE gets
    /\ sleeps' = Append(sleeps, base_delay + attempt)
    /\ IF MoreAttempts(attempt)
       THEN /\ attempt' = attempt + 1
            /\ pc' = RetryFrom(pc)
            /\ UNCHANGED << df, outcome >>
       ELSE /\ attempt' = attempt
            /\ pc' = "returned"
            /\ df' = NoneDf
            /\ outcome' = "fail"
    /\ UNCHANGED << files, cutoff_10y, mainVars, page, range, extracted, pts, start, seen >>
    /\ UNCHANGED funVars

\* the test of line 351 left out
HasData_always(d) == TRUE

\* main line 351: the frame counts when it is there and has rows
HasData(d) == ~ d.isNone /\ d.rows # << >>

\* main lines 351-361: the frame is collected, the loop moves on.  The locals
\* of the call that returned are gone with it.
Collect ==
    /\ pc = "returned"
    /\ all_rows' = IF HasData(df) THEN Append(all_rows, df.rows) ELSE all_rows
    /\ IF i < Len(items)
       THEN /\ i' = i + 1
            /\ pc' = "loop"
       ELSE /\ i' = i
            /\ pc' = "finishing"
    /\ df' = NoneDf
    /\ outcome' = "none"
    /\ attempt' = 0
    /\ gets' = 0
    /\ sleeps' = << >>
    /\ page' = "none"
    /\ range' = NoRange
    /\ extracted' = 0
    /\ pts' = << >>
    /\ UNCHANGED << files, cutoff_10y, processed, new_panel, merged, start, seen >>
    /\ UNCHANGED funVars

\* the test of line 363 left out
NothingCollected_never(rows) == FALSE

\* main line 363: "if not all_rows"
NothingCollected(rows) == rows = << >>

\* main lines 363-364: nothing was collected, the run ends in RuntimeError
FinishFatal ==
    /\ pc = "finishing"
    /\ NothingCollected(all_rows)
    /\ pc' = "fatal"
    /\ UNCHANGED << files, cutoff_10y, mainVars, callVars, start, seen >>
    /\ UNCHANGED funVars

\* the value of key k in frame d, NaN when d has no row of that key
ValueAt(d, k) ==
    IF \E n \in 1 .. Len(d) : d[n].country = k[1] /\ d[n].date = k[2]
    THEN d[CHOOSE n \in 1 .. Len(d) : d[n].country = k[1] /\ d[n].date = k[2]].value
    ELSE NaN

\* the master written through the filter of the 10-year view
FinishWrite_cutoff ==
    /\ pc = "finishing"
    /\ ~ NothingCollected(all_rows)
    /\ new_panel' = sort_values_key(ConcatFrames(all_rows))
    /\ merged' = merge_with_existing(master_csv, new_panel')
    /\ master_csv' = File(to_csv(Latest10y(merged', cutoff_10y)))
    /\ latest10y_csv' = File(to_csv(Latest10y(merged', cutoff_10y)))
    /\ manifest' = Manifest(merged', Latest10y(merged', cutoff_10y))
    /\ seen' = [k \in Keys |->
                  IF ValueAt(new_panel', k) # NaN THEN ValueAt(new_panel', k) ELSE seen[k]]
    /\ pc' = "done"
    /\ UNCHANGED << cutoff_10y, i, all_rows, processed, callVars, start >>
    /\ UNCHANGED funVars

\* main lines 366-367 with write_outputs: the panel of the run is merged into
\* the master and every output is rewritten
FinishWrite ==
    /\ pc = "finishing"
    /\ ~ NothingCollected(all_rows)
    /\ new_panel' = sort_values_key(ConcatFrames(all_rows))
    /\ merged' = merge_with_existing(master_csv, new_panel')
    /\ master_csv' = File(to_csv(merged'))
    /\ latest10y_csv' = File(to_csv(Latest10y(merged', cutoff_10y)))
    /\ manifest' = Manifest(merged', Latest10y(merged', cutoff_10y))
    /\ seen' = [k \in Keys |->
                  IF ValueAt(new_panel', k) # NaN THEN ValueAt(new_panel', k) ELSE seen[k]]
    /\ pc' = "done"
    /\ UNCHANGED << cutoff_10y, i, all_rows, processed, callVars, start >>
    /\ UNCHANGED funVars

Next ==
    \/ StartRun
    \/ CallScrape
    \/ Navigate
    \/ Ready
    \/ SelectRange
    \/ Extract
    \/ AttemptFails
    \/ Collect
    \/ FinishFatal
    \/ FinishWrite

Spec == Init /\ [][Next]_vars

\* ------------------------------------------------ the normalisation alone
NormResults == SeqsUpTo(RawPoints(Values), MaxPts)

\* The first run has reached the extraction of the first attempt for items[i]
\* (the countries before it gave nothing), and pts is what the script is about
\* to hand back: any result of up to MaxPts points.
InitNorm ==
    /\ master_csv = NoFile
    /\ latest10y_csv = NoFile
    /\ manifest = NoManifest
    /\ cutoff_10y = 0
    /\ pc = "extracting"
    /\ i \in 1 .. NumCountries
    /\ all_rows = << >>
    /\ processed = SubSeq(items, 1, i)
    /\ new_panel = << >>
    /\ merged = << >>
    /\ start = [master |-> NoFile, latest10y |-> NoFile, manifest |-> NoManifest]
    /\ seen = [k \in Keys |-> NaN]
    /\ df = NoneDf
    /\ outcome = "none"
    /\ attempt = 0
    /\ gets = 1
    /\ sleeps = << >>
    /\ page = "chart"
    /\ range = [clicked |-> TRUE, scripted |-> FALSE, chosen |-> "null", have |-> {}]
    /\ extracted = 0
    /\ pts \in NormResults
    /\ FunIdle

\* lines 245-255 on the result held in pts
ExtractGiven == ExtractFrom({pts})

NextNorm == ExtractGiven

SpecNorm == InitNorm /\ [][NextNorm]_vars

\* ------------------------------------------------- slugify_country alone
NameChars == { "U", "s", " ", "\t" }

\* the names slugify_country is given: every text of up to MaxNameLen
\* characters, and the target countries
Names == SeqsUpTo(NameChars, MaxNameLen) \cup { Spelling[k] : k \in 1 .. Len(Spelling) }

InitSlug ==
    /\ PipelineInit
    /\ name \in Names
    /\ slug = NoSlug
    /\ highcharts = NoRuntime
    /\ results = NoResults

\* slug = slugify_country(country), line 222 (and line 88)
Slugify ==
    /\ ~ slug.done
    /\ slug' = [done |-> TRUE, text |-> slugify_country(name)]
    /\ UNCHANGED << pipeVars, name, highcharts, results >>

NextSlug == Slugify

SpecSlug == InitSlug /\ [][NextSlug]_vars

\* --------------------------------------------- the extraction script alone
\* the points of a series of n points: timestamps ascending; when holed, the
\* first point has no numeric x and the second no numeric y
Points(n, holed) ==
    [k \in 1 .. n |->
       [x |-> IF holed /\ k = 1 THEN NotNumber ELSE k - 1,
        y |-> IF holed /\ k = 2 THEN NotNumber ELSE 105]]

\* a series has no point, SparseLen points (all numeric, or two of them not)
\* or DenseLen numeric points
PointSeqs ==
    { Points(0, FALSE), Points(SparseLen, FALSE), Points(SparseLen, TRUE),
      Points(DenseLen, FALSE) }

SeriesOptions ==
    { [isInternal |-> FALSE, id |-> "sales"],
      [isInternal |-> TRUE, id |-> "sales"],
      [isInternal |-> FALSE, id |-> "navigator"] }

SeriesSet ==
    { [isInternal |-> o.isInternal, id |-> o.id, points |-> ps] :
        o \in SeriesOptions, ps \in PointSeqs }

\* for n series in page order, the slots of Highcharts.charts they are in
ChartSlots(n) ==
    { f \in [1 .. n -> 1 .. MaxCharts] : \A a, b \in 1 .. n : a < b => f[a] <= f[b] }

\* a page's series in page order with the slot of each: up to MaxSeries series
Placements == UNION { [1 .. n -> SeriesSet] \X ChartSlots(n) : n \in 0 .. MaxSeries }

\* Highcharts.charts for the series ss placed in the slots cs: MaxCharts
\* slots, a slot with none of the series being a destroyed chart
ChartsOf(ss, cs) ==
    [c \in 1 .. MaxCharts |->
       IF \E k \in 1 .. Len(ss) : cs[k] = c
       THEN [live |-> TRUE, series |-> Pick(ss, { k \in 1 .. Len(ss) : cs[k] = c })]
       ELSE [live |-> FALSE, series |-> << >>]]

\* what the page can hold when the script runs
Runtimes == { NoRuntime } \cup { Runtime(ChartsOf(pl[1], pl[2])) : pl \in Placements }

InitScan ==
    /\ PipelineInit
    /\ name = << >>
    /\ slug = NoSlug
    /\ highcharts \in Runtimes
    /\ results = NoResults

\* pts = driver.execute_script(js), line 211
RunScript ==
    /\ ~ results.done
    /\ LET refs == Scan(highcharts)
       IN  results' = [done |-> TRUE, pts |-> PairsOf(highcharts, refs), from |-> refs]
    /\ UNCHANGED << pipeVars, name, slug, highcharts >>

NextScan == RunScript

SpecScan == InitScan /\ [][NextScan]_vars

\* ================================================================ claims
\* the positions of the rows of key k in frame d
RowsAt(d, k) == { n \in 1 .. Len(d) : d[n].country = k[1] /\ d[n].date = k[2] }

\* the persisted master as a panel, now and when the run started
MasterPanel == read_csv(master_csv.rows)
StartPanel == read_csv(start.master.rows)

\* key k is in the master the run found and in the run's panel, with two values
Overwrites(k) ==
    /\ ValueAt(StartPanel, k) # NaN
    /\ ValueAt(new_panel, k) # NaN
    /\ ValueAt(StartPanel, k) # ValueAt(new_panel, k)

\* C1: after every run the persisted master holds exactly one observation for
\* each (country, date) key that was in the scraped panel of some run so far,
\* with the value of the most recent run whose panel held the key, and no
\* observation for any other key.
C1_MasterHoldsLatest ==
    /\ \A k \in Keys :
         IF seen[k] = NaN
         THEN RowsAt(MasterPanel, k) = {}
         ELSE /\ Cardinality(RowsAt(MasterPanel, k)) = 1
              /\ \A n \in RowsAt(MasterPanel, k) : MasterPanel[n].value = seen[k]
    /\ Len(MasterPanel) = Cardinality({ k \in Keys : seen[k] # NaN })

\* a run has just rewritten a key of an earlier run with another value and
\* left alone a key its own panel did not hold
C1_Witness ==
    /\ pc = "done"
    /\ \E k \in Keys : Overwrites(k)
    /\ \E k \in Keys : ValueAt(StartPanel, k) # NaN /\ ValueAt(new_panel, k) = NaN

\* C2: for every key present in the persisted master and in the new panel
\* with differing values, the panel merge_with_existing returned carries the
\* new panel's value for the key, in every row of that key.
C2_NewValueWins ==
    pc = "done" =>
      \A k \in Keys :
        Overwrites(k) =>
          /\ RowsAt(merged, k) # {}
          /\ \A n \in RowsAt(merged, k) : merged[n].value = ValueAt(new_panel, k)

\* a merge in which two keys were in both inputs with differing values
C2_Witness ==
    /\ pc = "done"
    /\ start.master.exists
    /\ Cardinality({ k \in Keys : Overwrites(k) }) >= 2

\* C3: every key present in the persisted master (if there is one) or in the
\* new panel is in exactly one row of the panel merge_with_existing returned,
\* and the panel has no row of any other key.
C3_EveryKeyOnce ==
    pc = "done" =>
      /\ \A k \in Keys :
           Cardinality(RowsAt(merged, k)) =
             IF ValueAt(StartPanel, k) # NaN \/ ValueAt(new_panel, k) # NaN THEN 1 ELSE 0
      /\ \A n \in 1 .. Len(merged) : << merged[n].country, merged[n].date >> \in Keys

\* a merge with a key in both inputs, a key only in the master and a key only
\* in the new panel
C3_Witness ==
    /\ pc = "done"
    /\ start.master.exists
    /\ \E k \in Keys : ValueAt(StartPanel, k) # NaN /\ ValueAt(new_panel, k) # NaN
    /\ \E k \in Keys : ValueAt(StartPanel, k) # NaN /\ ValueAt(new_panel, k) = NaN
    /\ \E k \in Keys : ValueAt(StartPanel, k) = NaN /\ ValueAt(new_panel, k) # NaN

\* C4: once a merge has been persisted as the master, merging the same new
\* panel into it again returns the panel the first merge returned.
C4_MergeIdempotent ==
    pc = "done" => merge_with_existing(master_csv, new_panel) = merged

\* the first merge changed the master it found and is not the new panel alone
C4_Witness ==
    /\ pc = "done"
    /\ start.master.exists
    /\ merged # new_panel
    /\ merged # StartPanel
    /\ \E k \in Keys : Overwrites(k)

\* the raw points of pts that survive dropna and fall in the month starting at m
PointsIn(m) ==
    { n \in 1 .. Len(pts) : pts[n][1] # NaN /\ pts[n][2] # NaN /\ MonthStart(pts[n][1]) = m }

\* the points of the month starting at m that no other point of it is later than
LastPointsIn(m) == { n \in PointsIn(m) : \A j \in PointsIn(m) : pts[j][1] <= pts[n][1] }

\* C5: when several raw points of one extraction fall in the same month, the
\* frame scrape_country returns keeps for that month the value of the
\* chronologically last of them (of a raw point of the month that none of the
\* month is later than), as in raw points [(2020-01, 10.5), (2020-01, 11.0),
\* (2020-02, 12.0)] giving 11.0 for 2020-01.
C5_LastPointOfMonthWins ==
    (pc = "returned" /\ outcome = "ok") =>
      \A n \in 1 .. Len(df.rows) :
        df.rows[n].value \in { pts[j][2] : j \in LastPointsIn(df.rows[n].date) }

\* C6: when every attempt of a scrape_country call has raised, the call has
\* made exactly retry + 1 attempts and has returned None as a failure; no call
\* makes more than retry + 1 attempts.
C6_RetryExhaustion ==
    /\ gets <= retry + 1
    /\ Len(sleeps) = retry + 1 =>
         pc = "returned" /\ outcome = "fail" /\ df = NoneDf /\ gets = retry + 1
    /\ (pc = "returned" /\ outcome = "fail") =>
         gets = retry + 1 /\ Len(sleeps) = retry + 1 /\ df = NoneDf

\* a call has ended after its last attempt raised
C6_Witness == pc = "returned" /\ outcome = "fail" /\ gets = retry + 1

\* C7: once the extraction script has returned no points without raising,
\* scrape_country has returned the no-data outcome at once: in the attempt the
\* script ran in, with no delay beyond those of the attempts that failed before it.
C7_EmptyExtractionReturnsAtOnce ==
    (extracted > 0 /\ pts = << >>) =>
      /\ extracted = 1
      /\ pc = "returned"
      /\ outcome = "nodata"
      /\ df = NoneDf
      /\ gets = attempt + 1
      /\ Len(sleeps) = attempt

\* the script returned no points in the first attempt, the whole retry budget left
C7_Witness ==
    /\ pc = "returned"
    /\ extracted = 1
    /\ pts = << >>
    /\ attempt = 0
    /\ attempt < retry

\* how far main's loop has come, from where the process is
Announced ==
    IF pc = "idle" THEN 0
    ELSE IF pc = "loop" THEN i - 1
    ELSE IF pc \in Stages \cup {"returned"} THEN i
    ELSE Len(items)

\* C8: in a run the countries are taken one at a time in list order, each
\* once, and all of them whatever the earlier ones gave; a country that ends
\* as failed or as no-data adds nothing to all_rows and the loop moves on to
\* the next country (to the end of the run after the last).
C8_EveryCountryInOrder ==
    /\ [](processed = SubSeq(items, 1, Announced))
    /\ [][(pc = "returned" /\ outcome \in {"fail", "nodata"}) =>
            /\ all_rows' = all_rows
            /\ pc' = IF i < Len(items) THEN "loop" ELSE "finishing"
            /\ i' = IF i < Len(items) THEN i + 1 ELSE i]_vars

\* the last country is being scraped after every country before it gave nothing
C8_Witness ==
    /\ pc = "extracting"
    /\ i = Len(items)
    /\ i > 1
    /\ all_rows = << >>
    /\ processed = items

\* C9: a run in which no country gave data ends in the fatal error with the
\* master, the 10-year view and the manifest as they were when it started and
\* with no merge made; a run ends with outputs written only when some country
\* gave data.
C9_NoDataWritesNothing ==
    /\ pc \in {"finishing", "fatal"} =>
         /\ master_csv = start.master
         /\ latest10y_csv = start.latest10y
         /\ manifest = start.manifest
         /\ merged = << >>
         /\ new_panel = << >>
    /\ pc = "fatal" => all_rows = << >>
    /\ (pc = "finishing" /\ all_rows = << >>) => ~ ENABLED FinishWrite
    /\ pc = "done" => new_panel # << >>

\* a run over an existing master has ended in the fatal error
C9_Witness == pc = "fatal" /\ start.master.exists /\ master_csv.rows # << >>

\* C10: every frame scrape_country returns has a row, all of its rows are for
\* the requested country, every date is the first instant of a month, and the
\* dates are strictly ascending (so no two rows share a (country, date)).
C10_FrameNormalised ==
    (pc = "returned" /\ ~ df.isNone) =>
      /\ df.rows # << >>
      /\ \A n \in 1 .. Len(df.rows) :
           /\ df.rows[n].country = items[i]
           /\ df.rows[n].date = MonthStart(df.rows[n].date)
           /\ df.rows[n].date \in Months
      /\ \A n \in 1 .. (Len(df.rows) - 1) : df.rows[n].date < df.rows[n + 1].date

\* a frame of two months made from points that came out of order, one of
\* them dropped
C10_Witness ==
    /\ pc = "returned"
    /\ ~ df.isNone
    /\ Len(df.rows) = 2
    /\ Len(pts) = 3
    /\ pts[1][1] # NaN
    /\ pts[2][1] # NaN
    /\ pts[1][1] > pts[2][1]

\* the script result is a normalised panel of one country given back as raw
\* points: a row at least, no missing date or value, every date the first
\* instant of a month, dates strictly ascending
AlreadyNormalized(p) ==
    /\ p # << >>
    /\ \A n \in 1 .. Len(p) : p[n][1] \in Months /\ p[n][2] # NaN
    /\ \A n \in 1 .. (Len(p) - 1) : p[n][1] < p[n + 1][1]

\* the panel of country c whose dates and values are those of the points p
AsPanel(p, c) == [n \in 1 .. Len(p) |-> [country |-> c, date |-> p[n][1], value |-> p[n][2]]]

\* C11: the normalisation (drop nulls, drop exact duplicates, sort by date,
\* truncate to the month start, deduplicate on (country, date)) applied to a
\* panel whose dates are month-aligned, sorted and free of duplicate keys
\* returns that panel: the same rows, values and order.
C11_NormalizationIdempotent ==
    (pc = "returned" /\ AlreadyNormalized(pts)) => df = Df(AsPanel(pts, items[i]))

\* a panel of two months with two values has gone through the normalisation
C11_Witness ==
    /\ pc = "returned"
    /\ AlreadyNormalized(pts)
    /\ Len(pts) = 2
    /\ pts[1][2] # pts[2][2]
    /\ ~ df.isNone

\* the characters of name that slugify_country keeps: those from the first to
\* the last that is not whitespace
FirstKept == IF \E k \in 1 .. Len(name) : name[k] \notin Whitespace
             THEN CHOOSE k \in 1 .. Len(name) :
                    name[k] \notin Whitespace /\ \A j \in 1 .. (k - 1) : name[j] \in Whitespace
             ELSE 1
LastKept == IF \E k \in 1 .. Len(name) : name[k] \notin Whitespace
            THEN CHOOSE k \in 1 .. Len(name) :
                   name[k] \notin Whitespace /\ \A j \in (k + 1) .. Len(name) : name[j] \in Whitespace
            ELSE 0

\* the lowercase of a character
LowerOf(ch) ==
    IF \E u \in 1 .. Len(UpperCase) : UpperCase[u] = ch
    THEN LowerCase[CHOOSE u \in 1 .. Len(UpperCase) : UpperCase[u] = ch]
    ELSE ch

\* the kept characters at which a run of spaces starts
RunStarts ==
    { k \in FirstKept .. LastKept : name[k] = " " /\ (k = FirstKept \/ name[k - 1] # " ") }

Hyphens(t) == { k \in 1 .. Len(t) : t[k] = "-" }

\* C12 as claimed: slugify_country returns the override verbatim for a name in
\* the override table; for any other name it returns the trimmed, lowercased
\* name in which every run of internal spaces has become exactly one hyphen.
C12_RunsCollapseToOneHyphen ==
    slug.done =>
      IF name \in DOMAIN SLUG_OVERRIDES
      THEN slug.text = SLUG_OVERRIDES[name]
      ELSE /\ slug.text = replace_runs(lower(strip(name)))
           /\ Cardinality(Hyphens(slug.text)) = Cardinality(RunStarts)

\* C12 as amended: slugify_country returns the override verbatim for a name in
\* the override table ("United States" gives "united-states"); for any other
\* name it returns the name without its surrounding whitespace, every
\* character lowercased and every single space replaced by one hyphen, so a
\* run of n internal spaces yields n hyphens ("Brazil" gives "brazil").
C12_EachSpaceOneHyphen ==
    slug.done =>
      /\ name = Spelling[15] =>
           slug.text = << "u", "n", "i", "t", "e", "d", "-", "s", "t", "a", "t", "e", "s" >>
      /\ name = Spelling[2] => slug.text = << "b", "r", "a", "z", "i", "l" >>
      /\ IF name \in DOMAIN SLUG_OVERRIDES
         THEN slug.text = SLUG_OVERRIDES[name]
         ELSE /\ Len(slug.text) = LastKept - FirstKept + 1
              /\ \A k \in 1 .. Len(slug.text) :
                   slug.text[k] = IF name[FirstKept + k - 1] = " " THEN "-"
                                  ELSE LowerOf(name[FirstKept + k - 1])
              /\ Cardinality(Hyphens(slug.text)) =
                   Cardinality({ k \in FirstKept .. LastKept : name[k] = " " })

\* a name with an uppercase letter and a run of two internal spaces has been
\* given its slug, which has two hyphens
C12_Witness ==
    /\ slug.done
    /\ name = << "U", " ", " ", "s" >>
    /\ slug.text = << "u", "-", "-", "s" >>

\* the range controls activated in the attempt: the click on the 10-year
\* control and the button the script clicked
Activations == (IF range.clicked THEN 1 ELSE 0) + (IF range.chosen # "null" THEN 1 ELSE 0)

\* C13: in an attempt the script of set_range_to_max_or_10y runs only when
\* the 10-year control was not clickable; when it runs it clicks a MAX button
\* if a chart has one, else a 10Y button if a chart has one, else an ALL
\* button if a chart has one; at most one range control is activated in an
\* attempt, and what was selected is not selected again in that attempt.
C13_RangeStrategiesInOrder ==
    /\ [](/\ range.scripted => ~ range.clicked
          /\ range.clicked => range.chosen = "null"
          /\ range.scripted =>
               /\ range.chosen = "MAX" <=> "MAX" \in range.have
               /\ range.chosen = "10Y" <=> ("10Y" \in range.have /\ "MAX" \notin range.have)
               /\ range.chosen = "ALL" <=>
                    ("ALL" \in range.have /\ "MAX" \notin range.have /\ "10Y" \notin range.have)
               /\ range.chosen = "null" <=> range.have \cap Labels = {}
          /\ Activations <= 1
          /\ pc = "extracting" => (range.clicked \/ range.scripted))
    /\ [][range # NoRange => (range' = range \/ range' = NoRange)]_vars

\* the script has run on charts that carry all three labels and the
\* extraction of that attempt has returned
C13_Witness ==
    /\ pc = "returned"
    /\ outcome = "ok"
    /\ range.scripted
    /\ range.have = Labels
    /\ range.chosen = "MAX"

\* C14: when the 10-year control is not clickable and no chart has a MAX, 10Y
\* or ALL button, the range selection does not fail the attempt: the same
\* attempt goes on to the extraction, with no backoff and no new attempt.
C14_NoControlIsNoFailure ==
    [][(pc = "selecting_range" /\ range'.scripted /\ range'.chosen = "null") =>
         /\ pc' = "extracting"
         /\ attempt' = attempt
         /\ gets' = gets
         /\ sleeps' = sleeps
         /\ outcome' = outcome]_vars

\* the first attempt found no control at all and its extraction gave a frame
C14_Witness ==
    /\ pc = "returned"
    /\ outcome = "ok"
    /\ range.scripted
    /\ range.chosen = "null"
    /\ range.have = {}
    /\ attempt = 0
    /\ gets = 1
    /\ sleeps = << >>

\* the series s of chart c of the page, and the point a reference names
SeriesAt(c, s) == highcharts.charts[c].series[s]
PointAt(r) == SeriesAt(r[1], r[2]).points[r[3]]

\* the series of the page's live charts, as << chart, series >>
AllSeries ==
    { cs \in (1 .. Len(highcharts.charts)) \X (1 .. MaxSeries) :
        highcharts.charts[cs[1]].live /\ cs[2] <= Len(highcharts.charts[cs[1]].series) }

\* the references of all the points of the page's live charts
AllRefs ==
    UNION { { << cs[1], cs[2], q >> : q \in 1 .. Len(SeriesAt(cs[1], cs[2]).points) } :
              cs \in AllSeries }

\* the points with numeric x and y of the series that are neither flagged
\* internal nor the navigator
QualifyingRefs ==
    UNION { { << cs[1], cs[2], q >> :
                q \in { n \in 1 .. Len(SeriesAt(cs[1], cs[2]).points) :
                          /\ SeriesAt(cs[1], cs[2]).points[n].x # NotNumber
                          /\ SeriesAt(cs[1], cs[2]).points[n].y # NotNumber } } :
              cs \in { d \in AllSeries :
                         /\ ~ SeriesAt(d[1], d[2]).isInternal
                         /\ SeriesAt(d[1], d[2]).id # "navigator" } }

\* the references the script returned, and those of series s of chart c
Returned == { results.from[k] : k \in 1 .. Len(results.from) }
ReturnedOf(c, s) == { r \in Returned : r[1] = c /\ r[2] = s }

\* C15: every pair the extraction script returns is the [x, y] of a point with
\* numeric x and numeric y of a series that is neither flagged internal nor
\* identified as the navigator; no point of an internal or navigator series is
\* returned; without a charting runtime or without a qualifying series the
\* result is empty, and extract_highcharts_series makes None of an empty result.
C15_OnlyQualifyingPoints ==
    results.done =>
      /\ Len(results.pts) = Len(results.from)
      /\ Returned \subseteq QualifyingRefs
      /\ \A k \in 1 .. Len(results.from) :
           results.pts[k] = << PointAt(results.from[k]).x, PointAt(results.from[k]).y >>
      /\ \A r \in Returned :
           ~ (SeriesAt(r[1], r[2]).isInternal \/ SeriesAt(r[1], r[2]).id = "navigator")
      /\ (~ highcharts.defined \/ QualifyingRefs = {}) =>
           /\ results.pts = << >>
           /\ extract_highcharts_series(results.pts) = { NoneDf }
           /\ NormalizeFrame(NoneDf, items[1]).isNone

\* the script has returned points of a page that also has a navigator series
\* with points and a qualifying series with a point that is not numeric
C15_Witness ==
    /\ results.done
    /\ results.pts # << >>
    /\ \E r \in AllRefs : SeriesAt(r[1], r[2]).id = "navigator"
    /\ \E r \in AllRefs : SeriesAt(r[1], r[2]).isInternal
    /\ \E r \in AllRefs \ QualifyingRefs :
         ~ SeriesAt(r[1], r[2]).isInternal /\ SeriesAt(r[1], r[2]).id # "navigator"

\* C16 as claimed: the script stops once more than ten points have been
\* collected for the current series, so of a dense series the caller gets a
\* fixed small prefix (the points up to the one that passed ten), not all of
\* its points.
C16_DenseSeriesCutToPrefix ==
    results.done =>
      \A c \in 1 .. MaxCharts, s \in 1 .. MaxSeries :
        Cardinality(ReturnedOf(c, s)) <= cap + 1

\* r names a point of a series scanned before series s of chart c
Before(r, c, s) == r[1] < c \/ (r[1] = c /\ r[2] < s)

\* C16 as amended: the script tests the cap only at the end of a series and
\* on the total collected so far.  It returns, in scan order, all the numeric
\* points of every qualifying series before which at most ten points in total
\* had been collected, and nothing of the series after: a dense series is
\* returned whole, never as a prefix.
C16_StopsAfterSeriesPastTen ==
    results.done =>
      /\ LET qualifying == QualifyingRefs
             scanned == { cs \in AllSeries :
                            Cardinality({ q \in qualifying : Before(q, cs[1], cs[2]) }) <= cap }
         IN  Returned = { r \in qualifying : << r[1], r[2] >> \in scanned }
      /\ \A k \in 1 .. (Len(results.from) - 1) :
           \/ Before(results.from[k], results.from[k + 1][1], results.from[k + 1][2])
           \/ /\ results.from[k][1] = results.from[k + 1][1]
              /\ results.from[k][2] = results.from[k + 1][2]
              /\ results.from[k][3] < results.from[k + 1][3]

\* a dense series has been returned with all of its points, more than ten
\* and one, and a qualifying series after it with nothing
C16_Witness ==
    /\ results.done
    /\ \E c \in 1 .. MaxCharts, s \in 1 .. MaxSeries :
         /\ Cardinality(ReturnedOf(c, s)) = DenseLen
         /\ DenseLen > cap + 1
         /\ \E r \in QualifyingRefs : Before(<< c, s, 1 >>, r[1], r[2]) /\ r \notin Returned

\* C17: backoff happens only before a retry: a call whose attempts all fail
\* sleeps exactly retry times (not after the final failed attempt), and the
\* delay after failed attempt number k (from 0) is base_delay + k seconds.
C17_BackoffOnlyBeforeRetry ==
    /\ Len(sleeps) <= retry
    /\ \A k \in 1 .. Len(sleeps) : sleeps[k] = base_delay + (k - 1)
    /\ (pc = "returned" /\ outcome = "fail") => Len(sleeps) = retry

\* C18: in every attempt the stages come in the order navigate, await
\* readiness, select range, extract: the range selection starts only when the
\* readiness wait of the attempt has returned and the extraction only when the
\* range selection has; a stage that raises ends the attempt with nothing
\* more selected or extracted; every new attempt starts at the navigation.
C18_StagesInOrder ==
    [][/\ (pc' = "awaiting_ready" /\ pc # "awaiting_ready") =>
            (pc = "navigating" /\ gets' = gets + 1)
       /\ (pc' = "selecting_range" /\ pc # "selecting_range") =>
            (pc = "awaiting_ready" /\ page = "chart")
       /\ (pc' = "extracting" /\ pc # "extracting") => pc = "selecting_range"
       /\ (range' # range /\ range' # NoRange) => pc = "selecting_range"
       /\ (extracted' > extracted) => pc = "extracting"
       /\ (Len(sleeps') > Len(sleeps)) =>
            /\ pc \in Stages
            /\ pc' \in {"navigating", "returned"}
            /\ range' = range
            /\ extracted' = extracted
       /\ (attempt' > attempt) => (attempt' = attempt + 1 /\ pc' = "navigating")
       /\ (pc' = "navigating" /\ pc # "navigating") =>
            (pc = "loop" \/ (pc \in Stages /\ attempt' = attempt + 1))]_vars

\* the first attempt came through navigation, readiness and range selection
\* and raised in the extraction; the second attempt is at its navigation
C18_Witness ==
    /\ pc = "navigating"
    /\ attempt = 1
    /\ gets = 1
    /\ page = "chart"
    /\ range.scripted
    /\ extracted = 0
    /\ sleeps = << base_delay >>

\* C19: an attempt that is served an anti-automation challenge page reaches
\* neither the range selection nor the extraction; it ends in the except
\* handler, with the backoff and another attempt while the retry budget
\* lasts, and as a failure after the last; a call whose page is a challenge
\* page never returns a frame or the no-data outcome.
C19_ChallengePageIsRetried ==
    /\ [](page = "challenge" =>
            /\ pc \in {"awaiting_ready", "navigating", "returned"}
            /\ range = NoRange
            /\ extracted = 0
            /\ attempt <= retry
            /\ pc = "returned" => (outcome = "fail" /\ df = NoneDf /\ attempt = retry))
    /\ [][(pc = "awaiting_ready" /\ page = "challenge") =>
            /\ sleeps' = Append(sleeps, base_delay + attempt)
            /\ IF attempt < retry
               THEN pc' = "navigating" /\ attempt' = attempt + 1 /\ outcome' = "none"
               ELSE pc' = "returned" /\ outcome' = "fail" /\ df' = NoneDf]_vars

\* the first attempt was served a challenge page and has been given up; the
\* second is about to navigate
C19_Witness ==
    /\ pc = "navigating"
    /\ page = "challenge"
    /\ attempt = 1
    /\ gets = 1
    /\ sleeps = << base_delay >>

\* C20: a run that writes outputs leaves in the master, with its value, every
\* observation whose (country, date) key is not in the run's new panel (so
\* all the observations of a country that failed or gave no data in the run),
\* and no step takes a key out of the master.
C20_AbsentKeysUntouched ==
    /\ [](pc = "done" =>
            \A k \in Keys :
              ValueAt(new_panel, k) = NaN =>
                /\ ValueAt(MasterPanel, k) = ValueAt(StartPanel, k)
                /\ Cardinality(RowsAt(MasterPanel, k)) = Cardinality(RowsAt(StartPanel, k)))
    /\ [][\A k \in Keys : RowsAt(MasterPanel, k) # {} => RowsAt(MasterPanel', k) # {}]_vars

\* a run has written outputs with nothing for a country that had two
\* observations in the master it found
C20_Witness ==
    /\ pc = "done"
    /\ start.master.exists
    /\ \E c \in Countries :
         /\ \A m \in Months : ValueAt(new_panel, << c, m >>) = NaN
         /\ \A m \in Months : ValueAt(StartPanel, << c, m >>) # NaN
         /\ \E m \in Months : ValueAt(StartPanel, << c, m >>) # ValueAt(StartPanel, << c, 0 >>)

====
